---- MODULE Spec2Model ----
(***************************************************************************)
(* Model of the Poker WebApp front end: the request layer (lib/api.ts and  *)
(* its rewrites, StatsAndAccount.safeFetch) and the table polling /        *)
(* action handling of the App component.                                   *)
(***************************************************************************)
EXTENDS Integers, Sequences, FiniteSets, TLC

NULL == "null"
NoParam == "none"

\* ------------------------------------------------------------------------
\* Ambient Telegram context (window.Telegram.WebApp)
\* ------------------------------------------------------------------------
\* webapp: window.Telegram?.WebApp is an object; type/len: typeof and length
\* of tg.initData; throws: reading the object throws.
TgContexts ==
  { [webapp |-> FALSE, type |-> "undefined", len |-> 0, throws |-> FALSE],
    [webapp |-> TRUE,  type |-> "undefined", len |-> 0, throws |-> FALSE],
    [webapp |-> TRUE,  type |-> "string",    len |-> 0, throws |-> FALSE],
    [webapp |-> TRUE,  type |-> "string",    len |-> 1, throws |-> FALSE],
    [webapp |-> TRUE,  type |-> "string",    len |-> 1, throws |-> TRUE] }

PayloadCtx == [webapp |-> TRUE, type |-> "string", len |-> 1, throws |-> FALSE]

\* Variant: the `tg.initData.length > 0` test left out.
getTelegramInitData_noLength(ctx) ==
  IF ctx.throws THEN NULL
  ELSE IF ctx.webapp /\ ctx.type = "string" THEN "payload"
  ELSE NULL

\* getTelegramInitData(): the payload, or null (try/catch swallows a throw).
getTelegramInitData(ctx) ==
  IF ctx.throws THEN NULL
  ELSE IF ctx.webapp /\ ctx.type = "string" /\ ctx.len > 0 THEN "payload"
  ELSE NULL

\* safeFetch: !!(window as any)?.Telegram?.WebApp?.initData  (no typeof test)
isTelegram(ctx) == ctx.webapp /\ ctx.type = "string" /\ ctx.len > 0

\* ------------------------------------------------------------------------
\* Request layer
\* ------------------------------------------------------------------------
\* Caller-supplied query: an optional user_id and an optional unrelated key.
Queries == [user_id : {NoParam, "1", "7"}, other : BOOLEAN]
NoQuery == [user_id |-> NoParam, other |-> FALSE]

Statuses == {200, 201, 401, 404, 500}
ContentTypes == {"json", "text"}

VARIABLES
  tg,        \* ambient Telegram context
  memoInit,  \* StatsAndAccount: useMemo(getTelegramInitData, []) ("unmounted" before)
  gwPc,      \* position of the call: idle, await1, await2, done
  gwFn,      \* which wrapper is running
  gwQuery,   \* the caller's query
  initData,  \* the call's local const initData / token
  usp,       \* the call's URLSearchParams
  sent,      \* HTTP requests issued by the call, in order
  replies,   \* what the transport delivered to the call, in order
  contentType, \* content type of the last response delivered (NULL if none)
  outcome    \* how the call ended (NoOutcome while running)

gwVars == <<tg, memoInit, gwPc, gwFn, gwQuery, initData, usp, sent, replies,
           contentType, outcome>>

VARIABLES
  app,            \* which rewrite of App.tsx runs
  loading,        \* useState(true): the login request is outstanding
  authenticated,
  currentUserId,  \* 0 stands for null
  view,           \* 'lobby' | 'game'
  selectedGame,   \* part_004 only
  gameState,      \* the published GameState (NoState = null)
  error,
  raiseAmount,
  pollingRef,     \* pollingRef.current (part_004) / the effect's `poll` (part_002):
                  \* the table of the interval handle it holds, NULL if none
  intervals,      \* the intervals set and not yet cleared, by table
  inflight,       \* outstanding requests, in the order they were issued
  delivered,      \* the response the last step handed to fetchGameState / the poll
                  \* callback, to a join handler or to handleLeaveGame (NoReply if
                  \* it was no such step)
  server,         \* the table as the server holds it, where the model follows it
                  \* (NoServer: not followed, a state fetch may get any snapshot)
  activeTableId,  \* LobbyAndGame: localStorage item 'activeTableId' (NULL: no item)
  message         \* LobbyAndGame: LobbyPanel's message line

appVars == <<app, loading, authenticated, currentUserId, view, selectedGame,
             gameState, error, raiseAmount, pollingRef, intervals, inflight,
             delivered, server, activeTableId, message>>

VARIABLES
  gate,        \* what the last render computed: isMyTurn(), canCheck(), callAmount()
  tablesCall   \* one apiTables() call: the payload apiGet resolved with, the list returned

pureVars == <<gate, tablesCall>>

vars == <<gwVars, appVars, pureVars>>

\* A response handed to its handler: which request it answers, its HTTP
\* status (0: the fetch rejected) and, for a state fetch and a LobbyPanel
\* join, the place its request had among the outstanding ones (1: the
\* oldest; 0: not recorded).
Reply(kind, status, pos) == [kind |-> kind, status |-> status, pos |-> pos]
NoReply == Reply("none", -1, 0)

\* The server's side of a table: the snapshot it holds, how often it has
\* changed, and how many of the oldest outstanding requests were issued
\* before its last change.
NoServer == [state |-> [game_id |-> NULL], changes |-> 0, stale |-> 0]

\* Nothing rendered yet / no apiTables() call made.
NoGate == [rendered |-> FALSE, isMyTurn |-> FALSE, canCheck |-> FALSE, callAmount |-> 0]

\* A JSON value as apiTables looks at it: its type and, for an array, its
\* items; a payload is a JSON value together with its `tables` member.
JVal(type, items) == [type |-> type, items |-> items]
Undefined == JVal("undefined", <<>>)
Payload(type, items, tables) == [type |-> type, items |-> items, tables |-> tables]

NoCall == [pc |-> "none", data |-> Payload("null", <<>>, Undefined), result |-> <<>>]

\* Variant: the dev fallback forgotten outside Telegram.
BuildUsp_noDevFallback(q, init) ==
  [user_id |-> q.user_id, other |-> q.other]

\* Variant: user_id=1 added whenever the caller gave none, Telegram or not.
BuildUsp_alwaysDevId(q, init) ==
  [user_id |-> IF q.user_id = NoParam THEN "1" ELSE q.user_id,
   other   |-> q.other]

\* usp after the query is copied and the dev fallback applied
\* (api.ts 41-45, buildUrl, apiJoinTable 117-118).
BuildUsp(q, init) ==
  [user_id |-> IF init = NULL /\ q.user_id = NoParam THEN "1" ELSE q.user_id,
   other   |-> q.other]

\* safeFetch builds the URL from the live context, not from its token.
SafeFetchUsp(ctx) ==
  [user_id |-> IF ~isTelegram(ctx) THEN "1" ELSE NoParam, other |-> FALSE]

\* usp2 = new URLSearchParams(usp); usp2.set("user_id", "1")
RetryUsp(u) == [u EXCEPT !.user_id = "1"]

\* Identity mode at the moment a request is built.
Mode(ctx) == IF getTelegramInitData(ctx) # NULL THEN "telegram" ELSE "dev"

\* One outgoing HTTP request: X-Telegram-Init-Data header (or null), the
\* user_id query parameter (or none), the attempt number within its call,
\* and the identity mode when it was built.
Request(fn, attempt, hdr, u, mode) ==
  [fn |-> fn, attempt |-> attempt, header |-> hdr, user_id |-> u.user_id,
   other |-> u.other, mode |-> mode]

\* Variant: the fallback test inverted to "outside Telegram".
RetryCondition_devOnly(fn, attempt, status, init, u) ==
  /\ fn \in {"apiGet", "apiJoinTable"}
  /\ attempt = 1
  /\ status = 401
  /\ init = NULL
  /\ u.user_id = NoParam

\* Variant: the fallback written as a loop (`while` instead of `if`).
RetryCondition_loop(fn, attempt, status, init, u) ==
  /\ fn \in {"apiGet", "apiJoinTable"}
  /\ status = 401
  /\ init # NULL
  /\ u.user_id = NoParam

\* Variant: the fallback without the `!usp.has("user_id")` test.
RetryCondition_ignoreUserId(fn, attempt, status, init, u) ==
  /\ fn \in {"apiGet", "apiJoinTable"}
  /\ attempt = 1
  /\ status = 401
  /\ init # NULL

\* The 401 fallback: `if (res.status === 401 && initData && !usp.has("user_id"))`,
\* an if (not a loop) placed after the first attempt, in apiGet and
\* apiJoinTable of api.ts only.
RetryCondition(fn, attempt, status, init, u) ==
  /\ fn \in {"apiGet", "apiJoinTable"}
  /\ attempt = 1
  /\ status = 401
  /\ init # NULL
  /\ u.user_id = NoParam

\* Variant: the generic `!res.ok` test placed before the 401 test.
Classify_okFirst(fn, status, ct) ==
  IF fn = "safeFetch"
    THEN [kind |-> "result", ok |-> status \in 200..299, code |-> status,
          data |-> IF ct = "json" THEN "body" ELSE "{}", detail |-> ""]
  ELSE IF status \notin 200..299
    THEN [kind |-> "throw", ok |-> FALSE, code |-> status, data |-> "HTTP_status",
          detail |-> "text"]
  ELSE [kind |-> "return", ok |-> TRUE, code |-> status,
        data |-> IF ct = "json" THEN "body" ELSE "{}", detail |-> ""]

\* Classification of the final response.  A thrown Error carries its message
\* (data), err.code and err.detail = await res.text(); a returned value is
\* the parsed body, or {} when the content type is not application/json.
\* Only request() of part_000 (and apiRequest of part_001) names a 404
\* NOT_FOUND; api.ts handles it in the generic `!res.ok` branch.
Classify(fn, status, ct) ==
  IF fn = "safeFetch"
    THEN [kind |-> "result", ok |-> status \in 200..299, code |-> status,
          data |-> IF ct = "json" THEN "body" ELSE "{}", detail |-> ""]
  ELSE IF status = 401
    THEN [kind |-> "throw", ok |-> FALSE, code |-> 401, data |-> "AUTH_REQUIRED",
          detail |-> "text"]
  ELSE IF status = 404 /\ fn = "request"
    THEN [kind |-> "throw", ok |-> FALSE, code |-> 404, data |-> "NOT_FOUND",
          detail |-> "text"]
  ELSE IF status \notin 200..299
    THEN [kind |-> "throw", ok |-> FALSE, code |-> status, data |-> "HTTP_status",
          detail |-> "text"]
  ELSE [kind |-> "return", ok |-> TRUE, code |-> status,
        data |-> IF ct = "json" THEN "body" ELSE "{}", detail |-> ""]

\* Variant: after the fallback the first response is still the one classified
\* (the retry's result kept in a second variable).
ClassifiedStatus_first(prev, status) ==
  IF prev = <<>> THEN status ELSE prev[1]

\* The response the classification looks at: `res` is reassigned by the
\* fallback (api.ts 59), so it is always the latest one.
ClassifiedStatus(prev, status) == status

NoOutcome == [kind |-> "none", ok |-> FALSE, code |-> -1, data |-> "{}", detail |-> ""]

\* Variant: the wrapper swallows the network failure and returns {}.
OnReject_swallow(fn) ==
  IF fn = "safeFetch"
    THEN [kind |-> "result", ok |-> FALSE, code |-> 0, data |-> "{}", detail |-> ""]
    ELSE [kind |-> "return", ok |-> TRUE, code |-> 0, data |-> "{}", detail |-> ""]

\* A rejected fetch: safeFetch catches it, the api wrappers have no try/catch
\* around fetch, so the transport's own exception leaves the call.
OnReject(fn) ==
  IF fn = "safeFetch"
    THEN [kind |-> "result", ok |-> FALSE, code |-> 0, data |-> "{}", detail |-> ""]
    ELSE [kind |-> "throw", ok |-> FALSE, code |-> -1, data |-> "TypeError", detail |-> ""]

GatewayInit ==
  /\ tg \in TgContexts
  /\ memoInit = "unmounted"
  /\ gwPc = "idle"
  /\ gwFn = NULL
  /\ gwQuery = NoQuery
  /\ initData = NULL
  /\ usp = NoQuery
  /\ sent = <<>>
  /\ replies = <<>>
  /\ contentType = NULL
  /\ outcome = NoOutcome
  \* the App component is not running
  /\ app = "part_004"
  /\ loading = TRUE
  /\ authenticated = FALSE
  /\ currentUserId = 0
  /\ view = "lobby"
  /\ selectedGame = NULL
  /\ gameState = [game_id |-> NULL]
  /\ error = NULL
  /\ raiseAmount = 0
  /\ pollingRef = NULL
  /\ intervals = <<>>
  /\ inflight = <<>>
  /\ delivered = NoReply
  /\ server = NoServer
  /\ activeTableId = NULL
  /\ message = NULL
  /\ gate = NoGate
  /\ tablesCall = NoCall

\* The Telegram client injects the payload; it never goes away afterwards.
TelegramInjected ==
  /\ tg # PayloadCtx
  /\ tg' = PayloadCtx
  /\ UNCHANGED <<memoInit, gwPc, gwFn, gwQuery, initData, usp, sent, replies, contentType, outcome>>
  /\ UNCHANGED appVars
  /\ UNCHANGED pureVars

\* StatsAndAccount renders for the first time.
MountStatsAndAccount ==
  /\ memoInit = "unmounted"
  /\ memoInit' = getTelegramInitData(tg)
  /\ UNCHANGED <<tg, gwPc, gwFn, gwQuery, initData, usp, sent, replies, contentType, outcome>>
  /\ UNCHANGED appVars
  /\ UNCHANGED pureVars

\* apiGet(path, query) / request(method, path, query) up to the first await.
CallApi(fn, q) ==
  /\ gwPc = "idle"
  /\ fn \in {"apiGet", "request"}
  /\ LET init == getTelegramInitData(tg)
         u == BuildUsp(q, getTelegramInitData(tg))
     IN /\ initData' = init
        /\ usp' = u
        /\ sent' = <<Request(fn, 1, init, u, Mode(tg))>>
  /\ gwFn' = fn
  /\ gwQuery' = q
  /\ gwPc' = "await1"
  /\ replies' = <<>>
  /\ contentType' = NULL
  /\ outcome' = NoOutcome
  /\ UNCHANGED <<tg, memoInit>>
  /\ UNCHANGED appVars
  /\ UNCHANGED pureVars

\* apiJoinTable(tableId) of api.ts up to the first await.
CallJoinTable ==
  /\ gwPc = "idle"
  /\ LET init == getTelegramInitData(tg)
         u == BuildUsp(NoQuery, init)
     IN /\ initData' = init
        /\ usp' = u
        /\ sent' = <<Request("apiJoinTable", 1, init, u, Mode(tg))>>
  /\ gwFn' = "apiJoinTable"
  /\ gwQuery' = NoQuery
  /\ gwPc' = "await1"
  /\ replies' = <<>>
  /\ contentType' = NULL
  /\ outcome' = NoOutcome
  /\ UNCHANGED <<tg, memoInit>>
  /\ UNCHANGED appVars
  /\ UNCHANGED pureVars

\* safeFetch(path, opts, token) called from the StatsAndAccount effect.
CallSafeFetch ==
  /\ gwPc = "idle"
  /\ memoInit # "unmounted"
  /\ gwFn' = "safeFetch"
  /\ gwQuery' = NoQuery
  /\ initData' = memoInit
  /\ replies' = <<>>
  /\ contentType' = NULL
  /\ IF tg.throws
       THEN /\ usp' = NoQuery
            /\ sent' = <<>>
            /\ outcome' = OnReject("safeFetch")
            /\ gwPc' = "done"
       ELSE /\ usp' = SafeFetchUsp(tg)
            /\ sent' = <<Request("safeFetch", 1, memoInit, SafeFetchUsp(tg), Mode(tg))>>
            /\ outcome' = NoOutcome
            /\ gwPc' = "await1"
  /\ UNCHANGED <<tg, memoInit>>
  /\ UNCHANGED appVars
  /\ UNCHANGED pureVars

\* A response arrives for the outstanding attempt.
Respond(status, ct) ==
  /\ gwPc \in {"await1", "await2"}
  /\ replies' = Append(replies, status)
  /\ contentType' = ct
  /\ IF RetryCondition(gwFn, Len(sent), status, initData, usp)
       THEN /\ sent' = Append(sent, Request(gwFn, Len(sent) + 1, initData, RetryUsp(usp), "telegram"))
            /\ gwPc' = "await2"
            /\ outcome' = NoOutcome
       ELSE /\ sent' = sent
            /\ gwPc' = "done"
            /\ outcome' = Classify(gwFn, ClassifiedStatus(replies, status), ct)
  /\ UNCHANGED <<tg, memoInit, gwFn, gwQuery, initData, usp>>
  /\ UNCHANGED appVars
  /\ UNCHANGED pureVars

\* The fetch of the outstanding attempt rejects (network failure).
Reject ==
  /\ gwPc \in {"await1", "await2"}
  /\ replies' = Append(replies, 0)
  /\ outcome' = OnReject(gwFn)
  /\ gwPc' = "done"
  /\ UNCHANGED <<tg, memoInit, gwFn, gwQuery, initData, usp, sent, contentType>>
  /\ UNCHANGED appVars
  /\ UNCHANGED pureVars

\* The caller has consumed the outcome; the wrapper can be called again.
Finish ==
  /\ gwPc = "done"
  /\ gwPc' = "idle"
  /\ UNCHANGED <<tg, memoInit, gwFn, gwQuery, initData, usp, sent, replies, contentType, outcome>>
  /\ UNCHANGED appVars
  /\ UNCHANGED pureVars

GatewayNext ==
  \/ TelegramInjected
  \/ MountStatsAndAccount
  \/ \E fn \in {"apiGet", "request"}, q \in Queries : CallApi(fn, q)
  \/ CallJoinTable
  \/ CallSafeFetch
  \/ \E s \in Statuses, ct \in ContentTypes : Respond(s, ct)
  \/ Reject
  \/ Finish


\* ------------------------------------------------------------------------
\* App component: table polling and player actions.  Two rewrites of App.tsx
\* are modelled, selected by `app`: "part_004" keeps selectedGame and a
\* pollingRef, "part_002" derives the polled table from gameState.game_id.
\* ------------------------------------------------------------------------
Rewrites == {"part_002", "part_004"}
Apps == Rewrites \cup {"LobbyAndGame"}
Tables == {"T1", "T2"}

MaxInflight == 2   \* cap on requests outstanding at once

MyId == 7
BigBlind == 20
RaiseAmounts == {0, 20}

NoState == [game_id |-> NULL]

Player(id, chips, bet) == [id |-> id, chips |-> chips, current_bet |-> bet]

\* GameState payloads the server may answer with for table t (current_turn is
\* the 0-based index of the code): the local player's seat is the one to act
\* before the game starts, the opponent is to act, and the local player is to
\* act facing a bet or with the bets level.
ServerStates(t) ==
  { [game_id |-> t, phase |-> "waiting", current_turn |-> 1, current_bet |-> 0,
     big_blind |-> BigBlind, players |-> <<Player(2, 100, 0), Player(MyId, 100, 0)>>],
    [game_id |-> t, phase |-> "preflop", current_turn |-> 0, current_bet |-> 20,
     big_blind |-> BigBlind, players |-> <<Player(2, 100, 0), Player(MyId, 80, 20)>>],
    [game_id |-> t, phase |-> "preflop", current_turn |-> 1, current_bet |-> 20,
     big_blind |-> BigBlind, players |-> <<Player(2, 80, 20), Player(MyId, 15, 0)>>],
    [game_id |-> t, phase |-> "flop", current_turn |-> 1, current_bet |-> 40,
     big_blind |-> BigBlind, players |-> <<Player(2, 60, 40), Player(MyId, 60, 40)>>] }


Req(kind, game, action, amount) ==
  [kind |-> kind, game |-> game, action |-> action, amount |-> amount]

StateReq(game) == Req("state", game, "-", 0)

\* The body that comes with a response: any payload of the table on 200, and
\* one fixed (ignored) body otherwise.
Bodies(game, status) ==
  IF status = 200 THEN ServerStates(game)
  ELSE {CHOOSE gs \in ServerStates(game) : TRUE}

\* Variant: the response is merged into the state already published, whose
\* seats are kept.
setGameState_patch(old, data) ==
  IF old = NoState THEN data ELSE [data EXCEPT !.players = old.players]

\* setGameState(data): the published state is replaced as a whole by the
\* parsed response body.
setGameState(old, data) == data

RemoveAt(seq, i) == [j \in 1..(Len(seq) - 1) |-> IF j < i THEN seq[j] ELSE seq[j + 1]]

\* ---- ActionGate -----------------------------------------------------------
\* Variant: current_turn read as a 1-based seat number.
isMyTurn_oneBased ==
  IF gameState = NoState \/ currentUserId = 0 THEN FALSE
  ELSE IF gameState.current_turn < 1 \/ gameState.current_turn > Len(gameState.players)
    THEN FALSE
  ELSE gameState.players[gameState.current_turn].id = currentUserId

isMyTurn ==
  IF gameState = NoState \/ currentUserId = 0 THEN FALSE
  ELSE IF gameState.current_turn < 0 \/ gameState.current_turn >= Len(gameState.players)
    THEN FALSE
  ELSE gameState.players[gameState.current_turn + 1].id = currentUserId

\* players.find(player => player.id === currentUserId) || null, as a set
CurrentPlayers(gs) ==
  IF gs = NoState \/ currentUserId = 0 THEN {}
  ELSE LET idx == {i \in 1..Len(gs.players) : gs.players[i].id = currentUserId}
       IN IF idx = {} THEN {}
          ELSE {gs.players[CHOOSE i \in idx : \A j \in idx : i <= j]}

\* Variant: `>=` instead of `===`.
canCheck_covers ==
  \E p \in CurrentPlayers(gameState) : p.current_bet >= gameState.current_bet

canCheck ==
  \E p \in CurrentPlayers(gameState) : p.current_bet = gameState.current_bet

MathMax(a, b) == IF a >= b THEN a ELSE b

\* Variant: the difference returned without Math.max.
callAmount_noClamp ==
  IF CurrentPlayers(gameState) = {} THEN 0
  ELSE LET player == CHOOSE p \in CurrentPlayers(gameState) : TRUE
       IN gameState.current_bet - player.current_bet

\* 0 without a GameState or a local player, else
\* Math.max(0, gameState.current_bet - player.current_bet).
callAmount ==
  IF CurrentPlayers(gameState) = {} THEN 0
  ELSE LET player == CHOOSE p \in CurrentPlayers(gameState) : TRUE
       IN MathMax(0, gameState.current_bet - player.current_bet)

\* The raise check of handleAction and of the Raise button's `disabled`:
\* the amount is legal unless it is below the big blind.
validateRaise(gs, amount) == ~(amount < gs.big_blind)

\* ---- rendering guards -----------------------------------------------------
GameRendered ==
  /\ ~loading /\ authenticated
  /\ view = "game" /\ gameState # NoState
  /\ (app = "part_004" => selectedGame # NULL)

LobbyRendered == ~loading /\ authenticated /\ ~GameRendered

\* Variant: the panel shown on the player's turn whatever the phase.
ActionPanelRendered_anyPhase ==
  GameRendered /\ isMyTurn

\* {myTurn && gameState.phase !== 'waiting' && gameState.phase !== 'finished' && ...}
ActionPanelRendered ==
  GameRendered /\ isMyTurn /\ gameState.phase \notin {"waiting", "finished"}

\* ---- polling effect -------------------------------------------------------
\* Dependencies of the polling effect and the table it arms the interval for.
Deps ==
  IF app = "part_004" THEN <<selectedGame, authenticated, view>>
  ELSE <<gameState.game_id, view>>

Armed ==
  IF app = "part_004"
    THEN IF selectedGame # NULL /\ authenticated /\ view = "game" THEN selectedGame ELSE NULL
    ELSE IF gameState # NoState /\ view = "game" THEN gameState.game_id ELSE NULL

\* Requests issued when the effect body runs: part_004 fetches at once.
EffectFetch(armed) ==
  IF app = "part_004" /\ armed # NULL THEN <<StateReq(armed)>> ELSE <<>>

\* Variant: clearInterval stops nothing.
ClearInterval_none(ivs, ref) == ivs

\* clearInterval(handle): the interval of table `ref` stops (first one found).
ClearInterval(ivs, ref) ==
  IF ref = NULL \/ \A k \in 1..Len(ivs) : ivs[k] # ref THEN ivs
  ELSE RemoveAt(ivs, CHOOSE k \in 1..Len(ivs) :
                       ivs[k] = ref /\ \A j \in 1..(k - 1) : ivs[j] # ref)

\* setInterval(...) for table t, when the effect's condition holds.
ArmInterval(ivs, t) == IF t = NULL THEN ivs ELSE Append(ivs, t)

\* Variant: the effect arms without clearing the handle it holds.
EffectClear_none(ivs, ref) == ivs

\* What the effect clears before it arms again: the cleanup of the previous
\* run (and, in part_004, the head of the body) clear the handle held.
EffectClear(ivs, ref) == ClearInterval(ivs, ref)

\* Re-render after a handler: `rest` are the requests outstanding after the
\* handler itself, `ref` the pollingRef it left (NULL when the handler itself
\* cleared the interval).  When a dependency changed the cleanup clears the
\* interval and the effect body runs again.
Commit(rest, ref) ==
  LET left == IF ref = pollingRef THEN intervals
              ELSE ClearInterval(intervals, pollingRef)
  IN IF Deps' # Deps
       THEN /\ pollingRef' = Armed'
            /\ intervals' = ArmInterval(EffectClear(left, ref), Armed')
            /\ inflight' = rest \o EffectFetch(Armed')
       ELSE /\ pollingRef' = ref
            /\ intervals' = left
            /\ inflight' = rest

AppInit ==
  /\ app \in Apps
  /\ loading = (app \in Rewrites)   \* LobbyAndGame has no session to set up
  /\ authenticated = FALSE
  /\ currentUserId = 0
  /\ view = "lobby"
  /\ selectedGame = NULL
  /\ gameState = NoState
  /\ error = NULL
  /\ raiseAmount = 0
  /\ pollingRef = NULL
  /\ intervals = <<>>
  /\ inflight = <<>>
  /\ delivered = NoReply
  /\ server = NoServer
  /\ activeTableId = NULL
  /\ message = NULL
  /\ gate = NoGate
  /\ tablesCall = NoCall
  \* no api call is running
  /\ tg = PayloadCtx
  /\ memoInit = "unmounted"
  /\ gwPc = "idle"
  /\ gwFn = NULL
  /\ gwQuery = NoQuery
  /\ initData = NULL
  /\ usp = NoQuery
  /\ sent = <<>>
  /\ replies = <<>>
  /\ contentType = NULL
  /\ outcome = NoOutcome

\* initSession settles.
LoginResolve(ok) ==
  /\ loading
  /\ loading' = FALSE
  /\ IF ok
       THEN authenticated' = TRUE /\ currentUserId' = MyId /\ error' = error
       ELSE authenticated' = FALSE /\ currentUserId' = currentUserId
            /\ error' = "login failed"
  /\ UNCHANGED <<app, view, selectedGame, gameState, raiseAmount>>
  /\ Commit(inflight, pollingRef)
  /\ delivered' = NoReply
  /\ UNCHANGED <<server, activeTableId, message>>
  /\ UNCHANGED gwVars
  /\ UNCHANGED pureVars

\* Variant: a one-shot timer (setTimeout), gone once it has fired.
PollTick_oneShot ==
  /\ Len(inflight) < MaxInflight
  /\ \E k \in 1..Len(intervals) :
       /\ inflight' = Append(inflight, StateReq(intervals[k]))
       /\ intervals' = RemoveAt(intervals, k)
  /\ UNCHANGED <<app, loading, authenticated, currentUserId, view, selectedGame,
                 gameState, error, raiseAmount, pollingRef>>
  /\ delivered' = NoReply
  /\ UNCHANGED <<server, activeTableId, message>>
  /\ UNCHANGED gwVars
  /\ UNCHANGED pureVars

\* setInterval callback of an interval that is still set.
PollTick ==
  /\ Len(inflight) < MaxInflight
  /\ \E k \in 1..Len(intervals) : inflight' = Append(inflight, StateReq(intervals[k]))
  /\ UNCHANGED <<app, loading, authenticated, currentUserId, view, selectedGame,
                 gameState, error, raiseAmount, pollingRef, intervals>>
  /\ delivered' = NoReply
  /\ UNCHANGED <<server, activeTableId, message>>
  /\ UNCHANGED gwVars
  /\ UNCHANGED pureVars

\* Variant: fetchGameState with a plain `else` after `if (res.ok)`.
PollBranch_anyFailureEnds(appv, status) ==
  IF status = 200 THEN "apply"
  ELSE IF appv = "part_004" THEN "notfound"
  ELSE "ignore"

\* The branch a state response takes: `if (res.ok)` applies the payload,
\* `else if (res.status === 404)` (part_004 only) ends the table, any other
\* status and a rejected fetch (catch: console.error) change nothing.
PollBranch(appv, status) ==
  IF status = 200 THEN "apply"
  ELSE IF status = 404 /\ appv = "part_004" THEN "notfound"
  ELSE "ignore"

\* Variant: the failure branches report to the user.
PollError_banner(appv, status, err) ==
  IF status = 200 THEN (IF appv = "part_004" THEN NULL ELSE err)
  ELSE IF status = 404 /\ appv = "part_004" THEN "Game not found"
  ELSE "Failed to fetch game state"

\* Variant: a successful poll leaves the error state alone in both rewrites.
PollError_neverClears(appv, status, err) ==
  IF status = 404 /\ appv = "part_004" THEN "Game not found"
  ELSE err

\* The error state after a state response: part_004 clears it on success and
\* sets it on 404; nothing else calls setError.
PollError(appv, status, err) ==
  IF status = 200 THEN (IF appv = "part_004" THEN NULL ELSE err)
  ELSE IF status = 404 /\ appv = "part_004" THEN "Game not found"
  ELSE err

\* The bodies the i-th outstanding state fetch may be answered with: the
\* snapshot the server holds, or any snapshot where the server is not
\* followed or the request was issued before the server's last change.
Answers(i, status) ==
  IF status # 200 \/ server.state.game_id # inflight[i].game \/ i <= server.stale
    THEN Bodies(inflight[i].game, status)
    ELSE {server.state}

\* The response to GET /game/state/{id} (status 0: the fetch rejected).
StateResolve(i, status, gs) ==
  /\ i \in 1..Len(inflight)
  /\ inflight[i].kind = "state"
  /\ gs \in Answers(i, status)
  /\ server' = IF i <= server.stale THEN [server EXCEPT !.stale = @ - 1] ELSE server
  /\ UNCHANGED <<activeTableId, message>>
  /\ LET branch == PollBranch(app, status)
     IN /\ gameState' = IF branch = "apply" THEN setGameState(gameState, gs) ELSE gameState
        /\ selectedGame' = IF branch = "notfound" THEN NULL ELSE selectedGame
        /\ view' = IF branch = "notfound" THEN "lobby" ELSE view
  /\ error' = PollError(app, status, error)
  /\ UNCHANGED <<app, loading, authenticated, currentUserId, raiseAmount>>
  /\ Commit(RemoveAt(inflight, i), pollingRef)
  /\ delivered' = Reply(inflight[i].kind, status, i)
  /\ UNCHANGED gwVars
  /\ UNCHANGED pureVars

\* Variant: every response counts as ok, a rejected fetch too.
ResponseOk_always(status) == TRUE

\* response.ok (safeFetch: res.ok, false when the fetch rejected).
ResponseOk(status) == status \in 200..299

\* handleJoinGame up to its await.
JoinClick(t) ==
  /\ LobbyRendered
  /\ Len(inflight) < MaxInflight
  /\ inflight' = Append(inflight, Req("join", t, "-", 0))
  /\ UNCHANGED <<app, loading, authenticated, currentUserId, view, selectedGame,
                 gameState, error, raiseAmount, pollingRef, intervals>>
  /\ delivered' = NoReply
  /\ UNCHANGED <<server, activeTableId, message>>
  /\ UNCHANGED gwVars
  /\ UNCHANGED pureVars

\* handleJoinGame after POST /game/join settled.
JoinResolve(i, status, gs) ==
  /\ i \in 1..Len(inflight)
  /\ inflight[i].kind = "join"
  /\ gs \in Bodies(inflight[i].game, status)
  /\ IF ResponseOk(status)
       THEN IF app = "part_004"
              THEN /\ selectedGame' = inflight[i].game
                   /\ view' = "game"
                   /\ UNCHANGED <<gameState, raiseAmount, error>>
              ELSE /\ gameState' = setGameState(gameState, gs)
                   /\ view' = "game"
                   /\ raiseAmount' = 0
                   /\ error' = NULL
                   /\ UNCHANGED selectedGame
       ELSE /\ error' = "Failed to join"
            /\ UNCHANGED <<selectedGame, view, gameState, raiseAmount>>
  /\ UNCHANGED <<app, loading, authenticated, currentUserId>>
  /\ Commit(RemoveAt(inflight, i), pollingRef)
  /\ delivered' = Reply(inflight[i].kind, status, 0)
  /\ UNCHANGED <<server, activeTableId, message>>
  /\ UNCHANGED gwVars
  /\ UNCHANGED pureVars

\* handleReady up to its await (the READY button shows in the waiting phase).
ReadyClick ==
  /\ GameRendered
  /\ gameState.phase = "waiting"
  /\ Len(inflight) < MaxInflight
  /\ inflight' = Append(inflight,
       Req("ready", IF app = "part_004" THEN selectedGame ELSE gameState.game_id, "-", 0))
  /\ UNCHANGED <<app, loading, authenticated, currentUserId, view, selectedGame,
                 gameState, error, raiseAmount, pollingRef, intervals>>
  /\ delivered' = NoReply
  /\ UNCHANGED <<server, activeTableId, message>>
  /\ UNCHANGED gwVars
  /\ UNCHANGED pureVars

\* handleReady after POST /game/ready settled: part_004 refreshes the state
\* of the table captured at the click, and reports a rejected fetch.
ReadyResolve(i, status) ==
  /\ i \in 1..Len(inflight)
  /\ inflight[i].kind = "ready"
  /\ error' = IF app = "part_004" /\ status = 0 THEN "Failed to fetch" ELSE error
  /\ UNCHANGED <<app, loading, authenticated, currentUserId, view, selectedGame,
                 gameState, raiseAmount>>
  /\ Commit(IF app = "part_004" /\ status = 200
              THEN Append(RemoveAt(inflight, i), StateReq(inflight[i].game))
              ELSE RemoveAt(inflight, i),
            pollingRef)
  /\ delivered' = NoReply
  /\ UNCHANGED <<server, activeTableId, message>>
  /\ UNCHANGED gwVars
  /\ UNCHANGED pureVars

\* onChange of the raise input.
SetRaiseAmount(n) ==
  /\ ActionPanelRendered
  /\ n # raiseAmount
  /\ raiseAmount' = n
  /\ UNCHANGED <<app, loading, authenticated, currentUserId, view, selectedGame,
                 gameState, error, pollingRef, intervals, inflight>>
  /\ delivered' = NoReply
  /\ UNCHANGED <<server, activeTableId, message>>
  /\ UNCHANGED gwVars
  /\ UNCHANGED pureVars

\* Which buttons of the action panel can be pressed.
ButtonEnabled(action) ==
  /\ ActionPanelRendered
  /\ action = "check" => canCheck
  /\ action = "call" => ~canCheck
  /\ action = "raise" => ~(raiseAmount < gameState.big_blind)

ActionNames == {"fold", "check", "call", "raise", "all_in"}

\* handleAction up to its await: part_002 validates a raise and clears the
\* error before POST /game/action, part_004 posts what the button passed.
ActionClick(action) ==
  /\ ButtonEnabled(action)
  /\ Len(inflight) < MaxInflight
  /\ IF app = "part_002" /\ action = "raise" /\ ~validateRaise(gameState, raiseAmount)
       THEN /\ error' = "Raise must be at least big_blind"
            /\ inflight' = inflight
       ELSE /\ error' = IF app = "part_002" THEN NULL ELSE error
            /\ inflight' = Append(inflight,
                 Req("action",
                     IF app = "part_004" THEN selectedGame ELSE gameState.game_id,
                     action,
                     IF action = "raise" THEN raiseAmount ELSE 0))
  /\ UNCHANGED <<app, loading, authenticated, currentUserId, view, selectedGame,
                 gameState, raiseAmount, pollingRef, intervals>>
  /\ delivered' = NoReply
  /\ UNCHANGED <<server, activeTableId, message>>
  /\ UNCHANGED gwVars
  /\ UNCHANGED pureVars

\* handleAction after POST /game/action settled.
ActionResolve(i, status) ==
  /\ i \in 1..Len(inflight)
  /\ inflight[i].kind = "action"
  /\ error' = IF status = 200 THEN error ELSE "Action failed"
  /\ UNCHANGED <<app, loading, authenticated, currentUserId, view, selectedGame,
                 gameState, raiseAmount>>
  /\ Commit(IF app = "part_004" /\ status = 200
              THEN Append(RemoveAt(inflight, i), StateReq(inflight[i].game))
              ELSE RemoveAt(inflight, i),
            pollingRef)
  /\ delivered' = NoReply
  /\ UNCHANGED <<server, activeTableId, message>>
  /\ UNCHANGED gwVars
  /\ UNCHANGED pureVars

\* handleLeaveGame up to its await.
LeaveClick ==
  /\ GameRendered
  /\ Len(inflight) < MaxInflight
  /\ inflight' = Append(inflight,
       Req("leave", IF app = "part_004" THEN selectedGame ELSE gameState.game_id, "-", 0))
  /\ UNCHANGED <<app, loading, authenticated, currentUserId, view, selectedGame,
                 gameState, error, raiseAmount, pollingRef, intervals>>
  /\ delivered' = NoReply
  /\ UNCHANGED <<server, activeTableId, message>>
  /\ UNCHANGED gwVars
  /\ UNCHANGED pureVars

\* handleLeaveGame after POST /game/leave/{id} settled: catch, then finally
\* (part_004 clears the interval there, part_002 leaves it to the cleanup).
LeaveResolve(i, status) ==
  /\ i \in 1..Len(inflight)
  /\ inflight[i].kind = "leave"
  /\ error' = IF status = 0 THEN "Failed to leave game" ELSE error
  /\ view' = "lobby"
  /\ selectedGame' = NULL
  /\ gameState' = NoState
  /\ raiseAmount' = IF app = "part_002" THEN 0 ELSE raiseAmount
  /\ UNCHANGED <<app, loading, authenticated, currentUserId>>
  /\ Commit(RemoveAt(inflight, i), IF app = "part_004" THEN NULL ELSE pollingRef)
  /\ delivered' = Reply(inflight[i].kind, status, 0)
  /\ UNCHANGED <<server, activeTableId, message>>
  /\ UNCHANGED gwVars
  /\ UNCHANGED pureVars

\* LobbyPanel.join up to its await.
PanelJoinClick(t) ==
  /\ app = "LobbyAndGame"
  /\ view = "lobby"
  /\ Len(inflight) < MaxInflight
  /\ message' = NULL
  /\ inflight' = Append(inflight, Req("tablesJoin", t, "-", 0))
  /\ UNCHANGED <<app, loading, authenticated, currentUserId, view, selectedGame,
                 gameState, error, raiseAmount, pollingRef, intervals>>
  /\ delivered' = NoReply
  /\ UNCHANGED <<server, activeTableId>>
  /\ UNCHANGED gwVars
  /\ UNCHANGED pureVars

\* LobbyPanel.join after safeFetch resolved: both branches save the table.
PanelJoinResolve(i, status) ==
  /\ i \in 1..Len(inflight)
  /\ inflight[i].kind = "tablesJoin"
  /\ activeTableId' = inflight[i].game
  /\ message' = IF ResponseOk(status) THEN "Joined table" ELSE "Joined locally"
  /\ inflight' = RemoveAt(inflight, i)
  /\ UNCHANGED <<app, loading, authenticated, currentUserId, view, selectedGame,
                 gameState, error, raiseAmount, pollingRef, intervals>>
  /\ delivered' = Reply(inflight[i].kind, status, i)
  /\ UNCHANGED server
  /\ UNCHANGED gwVars
  /\ UNCHANGED pureVars

AppStatuses == {200, 401, 404, 500, 0}

\* Statuses given to the handlers that only test res.ok (join, ready, action,
\* leave): ok, not ok, rejected.
HandlerStatuses == {200, 500, 0}

AppNext ==
  \/ \E ok \in BOOLEAN : LoginResolve(ok)
  \/ PollTick
  \/ \E i \in 1..MaxInflight, st \in AppStatuses, t \in Tables :
       \E gs \in ServerStates(t) : StateResolve(i, st, gs)
  \/ \E t \in Tables : JoinClick(t)
  \/ \E i \in 1..MaxInflight, st \in HandlerStatuses, t \in Tables :
       \E gs \in ServerStates(t) : JoinResolve(i, st, gs)
  \/ ReadyClick
  \/ \E i \in 1..MaxInflight, st \in HandlerStatuses : ReadyResolve(i, st)
  \/ \E n \in RaiseAmounts : SetRaiseAmount(n)
  \/ \E a \in ActionNames : ActionClick(a)
  \/ \E i \in 1..MaxInflight, st \in HandlerStatuses : ActionResolve(i, st)
  \/ LeaveClick
  \/ \E i \in 1..MaxInflight, st \in HandlerStatuses : LeaveResolve(i, st)
  \/ \E t \in Tables : PanelJoinClick(t)
  \/ \E i \in 1..MaxInflight, st \in HandlerStatuses : PanelJoinResolve(i, st)

SpecApp == AppInit /\ [][AppNext]_vars

SpecGateway == GatewayInit /\ [][GatewayNext]_vars

\* ------------------------------------------------------------------------
\* Polling while a table stays selected: the state right after a successful
\* join, the server followed, every state fetch answered with 200, no user
\* operation.  Timer ticks keep coming and every fetch settles.
\* ------------------------------------------------------------------------
MaxChanges == 2   \* changes of the table on the server

\* The table changes on the server (another player acts, the hand goes on);
\* the requests outstanding at that moment may still be answered from before.
ServerChange ==
  /\ server.state.game_id # NULL
  /\ server.changes < MaxChanges
  /\ \E s \in ServerStates(server.state.game_id) \ {server.state} :
       server' = [state |-> s, changes |-> server.changes + 1, stale |-> Len(inflight)]
  /\ delivered' = NoReply
  /\ UNCHANGED <<app, loading, authenticated, currentUserId, view, selectedGame,
                 gameState, error, raiseAmount, pollingRef, intervals, inflight,
                 activeTableId, message>>
  /\ UNCHANGED gwVars
  /\ UNCHANGED pureVars

PollingInit ==
  /\ app \in Rewrites
  /\ loading = FALSE
  /\ authenticated = TRUE
  /\ currentUserId = MyId
  /\ view = "game"
  /\ selectedGame = (IF app = "part_004" THEN "T1" ELSE NULL)
  /\ gameState \in (IF app = "part_004" THEN {NoState} ELSE ServerStates("T1"))
  /\ error = NULL
  /\ raiseAmount = 0
  /\ pollingRef = "T1"
  /\ intervals = <<"T1">>
  /\ inflight = (IF app = "part_004" THEN <<StateReq("T1")>> ELSE <<>>)
  /\ delivered = NoReply
  /\ server \in {[state |-> s, changes |-> 0, stale |-> 0] : s \in ServerStates("T1")}
  /\ activeTableId = NULL
  /\ message = NULL
  /\ gate = NoGate
  /\ tablesCall = NoCall
  \* no api call is running
  /\ tg = PayloadCtx
  /\ memoInit = "unmounted"
  /\ gwPc = "idle"
  /\ gwFn = NULL
  /\ gwQuery = NoQuery
  /\ initData = NULL
  /\ usp = NoQuery
  /\ sent = <<>>
  /\ replies = <<>>
  /\ contentType = NULL
  /\ outcome = NoOutcome

PollingNext ==
  \/ PollTick
  \/ \E i \in 1..MaxInflight : \E gs \in ServerStates("T1") : StateResolve(i, 200, gs)
  \/ ServerChange

\* The oldest outstanding state fetch is answered.
OldestAnswered == \E gs \in ServerStates("T1") : StateResolve(1, 200, gs)

SpecPolling ==
  /\ PollingInit
  /\ [][PollingNext]_vars
  /\ WF_vars(PollTick)
  /\ WF_vars(OldestAnswered)

\* ------------------------------------------------------------------------
\* The pure functions: the ActionGate predicates evaluated at render time and
\* the payload normalisation of apiTables, applied to inputs drawn at Init.
\* ------------------------------------------------------------------------
MaxPlayers == 3   \* seats in a GameState given to the gate
MaxTables == 2    \* table summaries in a payload given to apiTables

SeqsUpTo(S, n) == UNION {[1..k -> S] : k \in 0..n}

PlayerIds == {1, 2, 3, MyId}
PlayerBets == {20, 40}
TableBets == {20, 40, 100}
LocalIds == {0, MyId}

\* Seatings: every player id sits at most once.
Seatings ==
  {ps \in SeqsUpTo({Player(id, 100, b) : id \in PlayerIds, b \in PlayerBets}, MaxPlayers) :
     \A i, j \in 1..Len(ps) : ps[i].id = ps[j].id => i = j}

\* GameStates given to the gate: current_turn runs from the -1 sentinel to
\* one past the last possible seat.
GateStates ==
  {[game_id |-> "T1", phase |-> "flop", current_turn |-> t, current_bet |-> cb,
    big_blind |-> BigBlind, players |-> ps] :
     t \in -1..MaxPlayers, cb \in TableBets, ps \in Seatings}

\* Payloads apiGet may resolve with for GET /tables: a bare array, an object
\* with a `tables` array, an object without one or with a non-array one,
\* null, a string.
TableLists == SeqsUpTo(Tables, MaxTables)

Payloads ==
  {Payload("array", L, Undefined) : L \in TableLists}
  \cup {Payload("object", <<>>, JVal("array", L)) : L \in TableLists}
  \cup {Payload("object", <<>>, Undefined),
        Payload("object", <<>>, JVal("string", <<>>)),
        Payload("object", <<>>, JVal("null", <<>>)),
        Payload("null", <<>>, Undefined),
        Payload("string", <<>>, Undefined)}

ArrayIsArray(v) == v.type = "array"

\* Variant: only the bare array is recognised.
apiTables_bareOnly(data) ==
  IF ArrayIsArray(data) THEN data.items ELSE <<>>

\* if (Array.isArray(data)) return data;
\* return Array.isArray(data?.tables) ? data.tables : [];
apiTables(data) ==
  IF ArrayIsArray(data) THEN data.items
  ELSE IF ArrayIsArray(data.tables) THEN data.tables.items
  ELSE <<>>

PureInit ==
  /\ \/ /\ gameState \in GateStates \cup {NoState}
        /\ currentUserId \in LocalIds
        /\ tablesCall = NoCall
     \/ /\ gameState = NoState
        /\ currentUserId = 0
        /\ tablesCall \in {[pc |-> "await", data |-> d, result |-> <<>>] : d \in Payloads}
  /\ gate = NoGate
  \* nothing else is running
  /\ app = "part_004"
  /\ loading = FALSE
  /\ authenticated = TRUE
  /\ view = "game"
  /\ selectedGame = NULL
  /\ error = NULL
  /\ raiseAmount = 0
  /\ pollingRef = NULL
  /\ intervals = <<>>
  /\ inflight = <<>>
  /\ delivered = NoReply
  /\ server = NoServer
  /\ activeTableId = NULL
  /\ message = NULL
  /\ tg = PayloadCtx
  /\ memoInit = "unmounted"
  /\ gwPc = "idle"
  /\ gwFn = NULL
  /\ gwQuery = NoQuery
  /\ initData = NULL
  /\ usp = NoQuery
  /\ sent = <<>>
  /\ replies = <<>>
  /\ contentType = NULL
  /\ outcome = NoOutcome

\* The component body runs: myTurn / canCheck() / callAmount() are evaluated
\* on the current gameState and currentUserId.
RenderGate ==
  /\ ~gate.rendered
  /\ gate' = [rendered |-> TRUE, isMyTurn |-> isMyTurn, canCheck |-> canCheck,
              callAmount |-> callAmount]
  /\ UNCHANGED tablesCall
  /\ UNCHANGED <<gwVars, appVars>>

\* apiTables() after its apiGet resolved with the payload.
TablesResolve ==
  /\ tablesCall.pc = "await"
  /\ tablesCall' = [pc |-> "done", data |-> tablesCall.data,
                    result |-> apiTables(tablesCall.data)]
  /\ UNCHANGED gate
  /\ UNCHANGED <<gwVars, appVars>>

PureNext ==
  \/ RenderGate
  \/ TablesResolve

SpecPure == PureInit /\ [][PureNext]_vars

\* ------------------------------------------------------------------------
\* Properties of the request layer (checked under SpecGateway)
\* ------------------------------------------------------------------------
IsTelegramCall == gwFn \in {"apiGet", "apiJoinTable"} /\ initData # NULL
FirstReplyIs401 == Len(replies) >= 1 /\ replies[1] = 401
Last(seq) == seq[Len(seq)]

C5_AtMostTwoRequests == Len(sent) <= 2

C5_Witness ==
  /\ gwPc = "done"
  /\ Len(sent) = 2
  /\ replies = <<401, 200>>
  /\ outcome.kind = "return"

\* C6 as stated: every request built in dev mode carries user_id=1 and no
\* X-Telegram-Init-Data header.
C6_DevAlwaysUserId1 ==
  \A i \in 1..Len(sent) :
    sent[i].mode = "dev" => sent[i].user_id = "1" /\ sent[i].header = NULL

\* C6 amended: every request built in dev mode carries no Telegram header and
\* a user_id parameter: the caller's own user_id when the caller gave one,
\* otherwise the fixed dev identity user_id=1.
C6_DevIdentity ==
  \A i \in 1..Len(sent) :
    sent[i].mode = "dev" =>
      /\ sent[i].header = NULL
      /\ sent[i].user_id = IF gwQuery.user_id = NoParam THEN "1" ELSE gwQuery.user_id

C6_Witness ==
  /\ gwPc = "await1"
  /\ sent[1].mode = "dev"
  /\ gwQuery.user_id = NoParam
  /\ sent[1].user_id = "1"
  /\ sent[1].header = NULL

\* C7 as stated: the Telegram header and the user_id parameter are together
\* on a request only on the second attempt of a call.
C7_HeaderXorUserId ==
  \A i \in 1..Len(sent) :
    (sent[i].header # NULL /\ sent[i].user_id # NoParam) => sent[i].attempt = 2

\* C7 amended: the Telegram header and the user_id parameter are together on
\* a request only on the second attempt of a call, or when the caller itself
\* passed user_id in its query (it is then forwarded unchanged next to the
\* header).
C7_HeaderAndUserIdOnlyByRetryOrCaller ==
  \A i \in 1..Len(sent) :
    (sent[i].header # NULL /\ sent[i].user_id # NoParam) =>
      \/ sent[i].attempt = 2
      \/ gwQuery.user_id # NoParam /\ sent[i].user_id = gwQuery.user_id

C7_Witness ==
  /\ Len(sent) = 2
  /\ gwQuery.other
  /\ sent[1].header # NULL /\ sent[1].user_id = NoParam
  /\ sent[2].header # NULL /\ sent[2].user_id = "1"

\* C10 as stated: when the fetch rejects, the call still ends in a typed
\* outcome; the transport's exception never reaches the caller.
C10_RejectIsTyped ==
  (gwPc = "done" /\ Len(replies) >= 1 /\ Last(replies) = 0)
    => outcome.data # "TypeError" /\ outcome.code # -1

\* C10 amended: when the fetch rejects during any attempt of apiGet,
\* apiJoinTable or request, the call ends at once without another HTTP
\* request and rejects with the transport's own exception (no status code,
\* no detail); it never returns a value. Only safeFetch turns the failure
\* into a typed result, {ok: false, status: 0}.
C10_RejectPropagates ==
  (gwPc = "done" /\ Len(replies) >= 1 /\ Last(replies) = 0) =>
    /\ Len(sent) = Len(replies)
    /\ IF gwFn = "safeFetch"
         THEN outcome = [kind |-> "result", ok |-> FALSE, code |-> 0, data |-> "{}",
                         detail |-> ""]
         ELSE outcome = [kind |-> "throw", ok |-> FALSE, code |-> -1, data |-> "TypeError",
                         detail |-> ""]

C10_Witness ==
  /\ gwPc = "done"
  /\ gwFn = "apiGet"
  /\ replies = <<401, 0>>
  /\ outcome.data = "TypeError"

\* The variant of RequestOutcome an ended call stands for.
Variant(o) ==
  IF o.kind = "return" THEN "Success"
  ELSE IF o.kind = "throw" /\ o.data = "AUTH_REQUIRED" THEN "Unauthenticated"
  ELSE IF o.kind = "throw" /\ o.data = "NOT_FOUND" THEN "NotFound"
  ELSE IF o.kind = "throw" /\ o.data = "HTTP_status" THEN "Error"
  ELSE "other"

\* An api wrapper has ended by classifying an HTTP response.
Classified ==
  /\ gwPc = "done"
  /\ gwFn \in {"apiGet", "apiJoinTable", "request"}
  /\ Len(replies) >= 1
  /\ Last(replies) # 0

C12_RetryOnlyWhenAllThree ==
  gwFn \in {"apiGet", "apiJoinTable", "request"} =>
    /\ Len(sent) >= 1
    /\ Len(sent) >= 2 =>
         /\ sent[1].mode = "telegram"
         /\ replies[1] = 401
         /\ gwQuery.user_id = NoParam
    /\ (gwPc = "done" /\ (\/ sent[1].mode = "dev"
                          \/ gwQuery.user_id # NoParam
                          \/ replies[1] # 401))
         => Len(sent) = 1 /\ Len(replies) = 1

C12_Witness ==
  /\ gwPc = "done"
  /\ gwFn = "apiGet"
  /\ sent[1].mode = "telegram"
  /\ gwQuery.user_id = "7"
  /\ replies = <<401>>
  /\ Len(sent) = 1

\* apiGet / apiJoinTable ended by classifying the response to the fallback.
Retried ==
  /\ gwPc = "done"
  /\ gwFn \in {"apiGet", "apiJoinTable"}
  /\ Len(replies) = 2
  /\ replies[2] # 0

ActiveTable ==
  IF app = "part_004" THEN selectedGame
  ELSE IF view = "game" /\ gameState # NoState THEN gameState.game_id ELSE NULL

StateFetches == {i \in 1..Len(inflight) : inflight[i].kind = "state"}

\* This step hands the response of the state fetch inflight[i] to its handler.
StateFetchSettles(i) ==
  /\ i \in StateFetches
  /\ Len(inflight') = Len(inflight) - 1
  /\ inflight' = RemoveAt(inflight, i)

\* C2: once another table is active, the response to a state fetch issued
\* for the previous table never changes the published GameState.
C2_StaleResponseDiscarded ==
  [][\A i \in 1..Len(inflight) :
       (StateFetchSettles(i) /\ ActiveTable # NULL /\ inflight[i].game # ActiveTable)
         => gameState' = gameState]_vars

\* C3: when a poll answers 404 (the step that raises 'Game not found'), the
\* synchronizer is idle afterwards, its timer is cancelled and the published
\* GameState is absent.
C3_NotFoundStopsAndClears ==
  [][(error' = "Game not found" /\ error # "Game not found")
       => (ActiveTable' = NULL /\ pollingRef' = NULL /\ gameState' = NoState)]_vars

\* C4: at most one state fetch is outstanding at any time.
C4_OnePollInFlight == Cardinality(StateFetches) <= 1

\* The raise check as specified: at least the big blind, at most the local
\* player's chips.
RaiseLegal(gs, amount) ==
  /\ amount >= gs.big_blind
  /\ \A p \in CurrentPlayers(gs) : amount <= p.chips

\* C8: the raise check accepts the amount in the raise input exactly when it
\* is at least the big blind and at most the local player's chips.
C8_ValidateRaiseRejectsOutOfRange ==
  ActionPanelRendered =>
    (validateRaise(gameState, raiseAmount) <=> RaiseLegal(gameState, raiseAmount))

\* C9: no POST /game/action is issued for a raise whose amount is not legal
\* (below the big blind or above the local player's chips), and the
\* published GameState is untouched by the attempt.
C9_IllegalRaiseNeverSent ==
  [][(/\ Len(inflight') = Len(inflight) + 1
      /\ inflight'[Len(inflight')].kind = "action"
      /\ inflight'[Len(inflight')].action = "raise")
       => RaiseLegal(gameState, inflight'[Len(inflight')].amount)]_vars

\* The last step handed a failed state response to its handler: 401, a
\* non-2xx status other than 404, or a rejected fetch.
PollFailed ==
  delivered.kind = "state" /\ delivered.status \in {401, 500, 0}

\* C14: when a state response is Unauthenticated or Error (non-2xx other than
\* 404, or a network failure), the published GameState is left exactly as it
\* was and the table stays polled: same active table, same armed interval.
C14_PollFailureKeepsStateAndTimer ==
  [][PollFailed' =>
       /\ gameState' = gameState
       /\ pollingRef' = pollingRef
       /\ ActiveTable' = ActiveTable]_vars

C14_Witness ==
  /\ delivered.kind = "state" /\ delivered.status = 500
  /\ gameState # NoState
  /\ pollingRef # NULL
  /\ pollingRef = ActiveTable

\* C15 as stated: when a state response is Unauthenticated or Error, the
\* user-visible error state is set as a result of that response.
C15_PollFailureSetsError ==
  [][PollFailed' => error' # NULL]_vars

\* C15 amended: when a state response is Unauthenticated or Error, no banner
\* is surfaced: the user-visible error state is left exactly as it was (the
\* failure is at most logged to the console).
C15_PollFailureLeavesError ==
  [][PollFailed' => error' = error]_vars

C15_Witness ==
  /\ delivered.kind = "state" /\ delivered.status = 401
  /\ error = NULL
  /\ pollingRef # NULL

\* C16: leaving cancels the interval, unbinds the table and clears the
\* GameState, and the GameState is still absent after the next step unless
\* that step binds a table, also when that step is the arrival of the
\* response to a state fetch issued before leaving.
C16_AbsentAfterLeave ==
  [][/\ delivered'.kind = "leave" =>
          pollingRef' = NULL /\ ActiveTable' = NULL /\ gameState' = NoState
     /\ (delivered.kind = "leave" /\ ActiveTable' = NULL) => gameState' = NoState]_vars

\* ------------------------------------------------------------------------
\* Properties of the pure functions (checked under SpecPure)
\* ------------------------------------------------------------------------
\* The entry of the local player: the first seat holding currentUserId.
LocalSeats ==
  IF gameState = NoState \/ currentUserId = 0 THEN {}
  ELSE {i \in 1..Len(gameState.players) :
          /\ gameState.players[i].id = currentUserId
          /\ \A j \in 1..(i - 1) : gameState.players[j].id # currentUserId}

\* C17: isMyTurn() is true exactly when a GameState is present, the local
\* player id is known, 0 <= current_turn < number of players and the player
\* at that index is the local player; false for the -1 sentinel and for any
\* index out of range.
C17_IsMyTurnExactly ==
  gate.rendered =>
    /\ gate.isMyTurn <=>
         /\ gameState # NoState
         /\ currentUserId # 0
         /\ 0 <= gameState.current_turn
         /\ gameState.current_turn < Len(gameState.players)
         /\ gameState.players[gameState.current_turn + 1].id = currentUserId
    /\ (gameState # NoState /\ (\/ gameState.current_turn = -1
                                 \/ gameState.current_turn >= Len(gameState.players)))
         => ~gate.isMyTurn

C17_Witness ==
  /\ gate.rendered
  /\ gate.isMyTurn
  /\ currentUserId = 7
  /\ gameState # NoState
  /\ gameState.current_turn = 2
  /\ Len(gameState.players) = 3
  /\ gameState.players[1].id = 1 /\ gameState.players[2].id = 2
  /\ gameState.players[3].id = 7

\* C18: canCheck() is true exactly when the local player's entry exists and
\* its current_bet equals the table's current_bet; false without a GameState
\* or without the entry.
C18_CanCheckExactly ==
  gate.rendered =>
    (gate.canCheck <=>
       \E i \in LocalSeats : gameState.players[i].current_bet = gameState.current_bet)

C18_Witness ==
  /\ gate.rendered
  /\ gate.canCheck
  /\ gameState # NoState
  /\ gameState.current_bet = 40
  /\ \E i \in LocalSeats : gameState.players[i].current_bet = 40

\* C19: for every GameState holding the local player callAmount() is
\* max(0, table current_bet - the player's current_bet); it is never
\* negative, and it is 0 whenever canCheck() is true.
C19_CallAmountClamped ==
  gate.rendered =>
    /\ \A i \in LocalSeats :
         LET diff == gameState.current_bet - gameState.players[i].current_bet
         IN gate.callAmount = IF diff > 0 THEN diff ELSE 0
    /\ gate.callAmount >= 0
    /\ gate.canCheck => gate.callAmount = 0

C19_Witness ==
  /\ gate.rendered
  /\ gate.callAmount = 80
  /\ gameState # NoState
  /\ gameState.current_bet = 100
  /\ \E i \in LocalSeats : gameState.players[i].current_bet = 20

\* C20: apiTables returns the list L both for the bare array L and for the
\* wrapper object {tables: L}, and the empty list for any payload that is
\* neither.
C20_TablesNormalised ==
  tablesCall.pc = "done" =>
    LET data == tablesCall.data IN
    /\ data.type = "array" => tablesCall.result = data.items
    /\ (data.type = "object" /\ data.tables.type = "array")
         => tablesCall.result = data.tables.items
    /\ (data.type # "array" /\ ~(data.type = "object" /\ data.tables.type = "array"))
         => tablesCall.result = <<>>

C20_Witness ==
  /\ tablesCall.pc = "done"
  /\ tablesCall.data.type = "object"
  /\ tablesCall.data.tables = JVal("array", <<"T2", "T1">>)
  /\ tablesCall.result = <<"T2", "T1">>

\* ------------------------------------------------------------------------
\* Identity resolution (checked under SpecGateway)
\* ------------------------------------------------------------------------
\* An api wrapper (apiGet, apiJoinTable, request) is called in this step.
ApiCalled ==
  gwPc = "idle" /\ gwPc' = "await1" /\ gwFn' \in {"apiGet", "apiJoinTable", "request"}

\* A non-empty string init payload can be read from the Telegram context.
PayloadPresent ==
  tg.webapp /\ tg.type = "string" /\ tg.len > 0 /\ ~tg.throws

\* C21: at every call the resolver gives mode telegram with the payload as
\* credential if and only if a non-empty string init payload is present in
\* the Telegram context at that moment, and mode dev with a null credential
\* otherwise (no Telegram object, empty string, non-string, throwing
\* accessor); it reads the context anew at each call.
C21_ResolverReadsContextAtCall ==
  [][ApiCalled =>
       IF PayloadPresent
         THEN initData' = "payload" /\ sent'[1].mode = "telegram"
         ELSE initData' = NULL /\ sent'[1].mode = "dev"]_vars

\* A call made after the payload arrived uses it, although an earlier
\* reading (the one StatsAndAccount memoised at mount) found none.
C21_Witness ==
  /\ gwPc = "await1"
  /\ gwFn = "apiGet"
  /\ memoInit = NULL
  /\ initData = "payload"
  /\ sent[1].mode = "telegram"
  /\ sent[1].header = "payload"

\* ------------------------------------------------------------------------
\* Dispatch, timer and publication properties of the App component
\* (checked under SpecApp)
\* ------------------------------------------------------------------------
\* This step issues a POST /game/action request.
ActionIssued ==
  /\ Len(inflight') = Len(inflight) + 1
  /\ inflight'[Len(inflight')].kind = "action"

\* C22: a player action request is issued only when, on the GameState
\* published at that moment, isMyTurn() is true and the phase is neither
\* waiting nor finished; a check only when canCheck() holds, a call only when
\* it does not.
C22_ActionOnlyThroughGate ==
  [][ActionIssued =>
       /\ gameState # NoState
       /\ currentUserId # 0
       /\ 0 <= gameState.current_turn
       /\ gameState.current_turn < Len(gameState.players)
       /\ gameState.players[gameState.current_turn + 1].id = currentUserId
       /\ gameState.phase # "waiting"
       /\ gameState.phase # "finished"
       /\ LET a == inflight'[Len(inflight')].action
              bets == {p.current_bet : p \in {q \in {gameState.players[i] :
                          i \in 1..Len(gameState.players)} : q.id = currentUserId}}
          IN /\ a = "check" => bets = {gameState.current_bet}
             /\ a = "call" => bets # {gameState.current_bet}]_vars

\* A check is in flight, issued when the bets were level.
C22_Witness ==
  /\ inflight # <<>>
  /\ inflight[Len(inflight)].kind = "action"
  /\ inflight[Len(inflight)].action = "check"
  /\ gameState # NoState
  /\ gameState.phase = "flop"
  /\ isMyTurn
  /\ canCheck

\* The intervals that are set belong to the bound table on the game view,
\* and there is at most one of them.
TimerOk ==
  /\ Len(intervals) <= 1
  /\ \A k \in 1..Len(intervals) :
       intervals[k] = ActiveTable /\ view = "game" /\ ActiveTable # NULL

\* This step binds a table that was not the bound one.
Selects == ActiveTable' # NULL /\ ActiveTable' # ActiveTable

CountFetches(seq, t) == Cardinality({k \in 1..Len(seq) : seq[k] = StateReq(t)})

\* C23 as stated: at most one interval is set, only for the bound table on
\* the game view; selecting a table clears the previous interval, sets the
\* new one and issues one immediate state fetch for the table.
C23_OneTimerAndImmediateFetch ==
  [][/\ TimerOk'
     /\ Selects =>
          /\ intervals' = <<ActiveTable'>>
          /\ CountFetches(inflight', ActiveTable') = CountFetches(inflight, ActiveTable') + 1
          /\ inflight'[Len(inflight')] = StateReq(ActiveTable')]_vars

\* C23 amended: at most one interval is set, only while a table is bound and
\* the game view is shown, and for exactly that table; binding a table clears
\* the interval set before and sets the new one.  The part_004 rewrite also
\* issues one immediate state fetch for the table; the part_002 rewrite
\* issues none (it publishes the join payload and fetches at the first tick).
C23_OneTimerFetchInPart004 ==
  [][/\ TimerOk'
     /\ Selects =>
          /\ intervals' = <<ActiveTable'>>
          /\ IF app = "part_004"
               THEN /\ CountFetches(inflight', ActiveTable')
                         = CountFetches(inflight, ActiveTable') + 1
                    /\ inflight'[Len(inflight')] = StateReq(ActiveTable')
               ELSE CountFetches(inflight', ActiveTable')
                      <= CountFetches(inflight, ActiveTable')]_vars

\* T2 was selected while T1 was polled: T1's fetch is still out, the one
\* interval is T2's and T2's immediate fetch was issued.
C23_Witness ==
  /\ app = "part_004"
  /\ selectedGame = "T2"
  /\ intervals = <<"T2">>
  /\ Len(inflight) = 2
  /\ inflight[1] = StateReq("T1")
  /\ inflight[2] = StateReq("T2")


\* The last step applied a state response to gameState.
Applied == delivered.kind = "state" /\ delivered.status = 200

\* C24: state responses are applied in the order their requests were issued:
\* a response is never applied right on top of the response to a request
\* that was issued after its own.
C24_AppliedInIssueOrder ==
  [][(Applied /\ Applied') => delivered'.pos >= delivered.pos]_vars


\* The table of the request whose response this step applies.
AppliedTable == inflight[delivered'.pos].game

\* C25 as stated: when a poll yields Success, the error state is absent after
\* the response is applied and the published GameState is the payload.
C25_SuccessClearsError ==
  [][Applied' => /\ error' = NULL
                 /\ gameState' \in ServerStates(AppliedTable)]_vars

\* C25 amended: when a poll yields Success, the published GameState is the
\* payload; the part_004 rewrite clears the error state, the part_002
\* rewrite leaves it as it was.
C25_SuccessClearsErrorInPart004 ==
  [][Applied' => /\ error' = (IF app = "part_004" THEN NULL ELSE error)
                 /\ gameState' \in ServerStates(AppliedTable)]_vars

\* A poll has just succeeded in part_002 and the error surfaced before it
\* is still shown.
C25_Witness ==
  /\ app = "part_002"
  /\ Applied
  /\ error # NULL
  /\ gameState \in ServerStates("T1")


\* C26: the published GameState is absent or is, in every field, one single
\* response body of the server; it is never a mix of two responses.
C26_StateIsOneWholePayload ==
  gameState = NoState \/ \E t \in Tables : gameState \in ServerStates(t)

\* A state response was applied while an older request was still outstanding,
\* and the published state is that response's flop snapshot in every field.
C26_Witness ==
  /\ Applied
  /\ delivered.pos = 2
  /\ gameState.phase = "flop"
  /\ gameState.players = <<Player(2, 60, 40), Player(MyId, 60, 40)>>


\* ------------------------------------------------------------------------
\* Properties of polling while the table stays selected (checked under
\* SpecPolling)
\* ------------------------------------------------------------------------
IssuesStateFetch ==
  /\ Len(inflight') = Len(inflight) + 1
  /\ inflight'[Len(inflight')] = StateReq("T1")

\* C27: while T1 stays selected on the game view and every state fetch is
\* answered with 200, a new state fetch is issued again and again, and once
\* the server's table has stopped changing the published GameState ends up
\* equal to it for good.
C27_PollingGoesOn ==
  /\ []<><<IssuesStateFetch>>_vars
  /\ <>[](gameState = server.state)

\* The server has made its last change while two fetches were outstanding,
\* the published state is still an older one, and the interval is set.
C27_Witness ==
  /\ server.changes = MaxChanges
  /\ server.stale = 2
  /\ gameState # NoState
  /\ gameState # server.state
  /\ intervals = <<"T1">>


\* The table the user sits at as the front end has it.
SelectedTable == IF app = "LobbyAndGame" THEN activeTableId ELSE ActiveTable

JoinFailed == delivered.kind \in {"join", "tablesJoin"} /\ delivered.status # 200
JoinSucceeded == delivered.kind \in {"join", "tablesJoin"} /\ delivered.status = 200

\* C28 as stated: a failed join (non-2xx or network error) leaves the
\* selected table, the GameState, the view and the timers as they were, and
\* a table becomes selected only by a successful join.
C28_FailedJoinSelectsNothing ==
  [][/\ JoinFailed' =>
          /\ SelectedTable' = SelectedTable
          /\ gameState' = gameState
          /\ view' = view
          /\ intervals' = intervals
     /\ (SelectedTable = NULL /\ SelectedTable' # NULL) => JoinSucceeded']_vars

\* C28 amended: in the App rewrites a failed join leaves the selected table,
\* the GameState, the view and the timers as they were and a table becomes
\* selected only by a successful join.  LobbyPanel.join saves the table as
\* the active one whether the join succeeded or failed (a failure is shown
\* as "Joined locally"); it touches no GameState, view or timer.
C28_FailedJoinSelectsNothingInRewrites ==
  [][/\ JoinFailed' =>
          /\ IF app = "LobbyAndGame"
               THEN /\ activeTableId' = inflight[delivered'.pos].game
                    /\ message' = "Joined locally"
               ELSE SelectedTable' = SelectedTable
          /\ gameState' = gameState
          /\ view' = view
          /\ intervals' = intervals
     /\ (SelectedTable = NULL /\ SelectedTable' # NULL) =>
          IF app = "LobbyAndGame" THEN delivered'.kind = "tablesJoin"
          ELSE JoinSucceeded']_vars

\* A join of T1 has just failed in an App rewrite that polls T2: the error
\* is shown and T2 is still the selected table.
C28_Witness ==
  /\ app \in Rewrites
  /\ JoinFailed
  /\ error = "Failed to join"
  /\ SelectedTable = "T2"
  /\ intervals = <<"T2">>


\* C29: when handleLeaveGame has run to its end, whether POST /game/leave
\* answered 2xx, answered non-2xx or was rejected by the network, the view is
\* the lobby, no table is selected, the GameState is absent and no interval
\* is set.
C29_LeaveCompletesLocally ==
  [][delivered'.kind = "leave" =>
       /\ view' = "lobby"
       /\ selectedGame' = NULL
       /\ ActiveTable' = NULL
       /\ gameState' = NoState
       /\ intervals' = <<>>
       /\ pollingRef' = NULL]_vars

\* The leave request was rejected by the network, and still the lobby is
\* shown with nothing selected and no interval set.
C29_Witness ==
  /\ delivered.kind = "leave"
  /\ delivered.status = 0
  /\ error = "Failed to leave game"
  /\ view = "lobby"
  /\ gameState = NoState
  /\ intervals = <<>>


\* C30: every request sent carries the X-Telegram-Init-Data header or the
\* user_id query parameter, whenever the Telegram client injects its payload.
C30_AlwaysAnIdentity ==
  \A i \in 1..Len(sent) : sent[i].header # NULL \/ sent[i].user_id # NoParam

====
